---- MODULE Spec2Model ----
(***************************************************************************)
(* Telemetry layer of the multi-agent chat program:                        *)
(*   telemetry_wrapper.py  FileSpanExporter, wrap_agent_with_telemetry and *)
(*                         the wrapped_method closure it defines           *)
(*   agents.py             weather_tool, web_search                        *)
(*   main.py               the wrap calls of main()                        *)
(*                                                                         *)
(* Python values are tagged records: t names the type, v the payload.      *)
(* A str is a sequence of symbols; the symbol "tool_code" stands for that  *)
(* substring, so `'tool_code' in s` is membership of the symbol.           *)
(***************************************************************************)
EXTENDS Integers, Sequences, FiniteSets, TLC

\* ------------------------------------------------------------ Python values
\* Each type keeps its payload in a field of its own name.
NoneV == [t |-> "none"]

PyStr(x) == [t |-> "str", s |-> x]

PyInt(x) == [t |-> "int", n |-> x]

PyList(x) == [t |-> "list", items |-> x]

PyDict(x) == [t |-> "dict", d |-> x]

PyObj(c, x) == [t |-> "obj", cls |-> c, name |-> x]

\* An exception instance: cls its type, id its identity, base = TRUE when the
\* type derives from BaseException only (asyncio.CancelledError), msg = str(e).
Exc(c, i, b, m) == [t |-> "exc", cls |-> c, id |-> i, base |-> b, msg |-> m]

IsExc(x) == x.t = "exc"

Absent == [t |-> "absent"]

EmptyMap == [k \in {} |-> NoneV]

\* bool(x)
Truthy(x) ==
  CASE x.t = "none" -> FALSE
    [] x.t = "str"  -> Len(x.s) > 0
    [] x.t = "list" -> Len(x.items) > 0
    [] x.t = "dict" -> DOMAIN x.d # {}
    [] x.t = "int"  -> x.n # 0
    [] OTHER        -> TRUE

\* a or b
PyOr(a, b) == IF Truthy(a) THEN a ELSE b

\* d.get(k, default) of a dict payload
DictGet(f, k, default) == IF k \in DOMAIN f THEN f[k] ELSE default

\* str(x)
StrOf(x) ==
  CASE x.t = "str"  -> x
    [] x.t = "none" -> PyStr(<<"None">>)
    [] x.t = "obj"  -> PyStr(<<"<", x.cls, " object>">>)
    [] OTHER        -> PyStr(<<"repr">>)

\* The exceptions the wrapper's own statements raise have identity 0; the
\* delegated operation's exceptions have identities >= 1.
OwnTypeError(m) == Exc("TypeError", 0, FALSE, m)

OwnKeyError(m) == Exc("KeyError", 0, FALSE, m)

\* x[-1]
LastItem(x) ==
  CASE x.t = "list" -> x.items[Len(x.items)]
    [] x.t = "str"  -> PyStr(<<x.s[Len(x.s)]>>)
    [] x.t = "dict" -> OwnKeyError("-1")
    [] OTHER        -> OwnTypeError("not subscriptable")

\* sym in x
Contains(x, sym) ==
  CASE x.t = "str"  -> \E i \in 1..Len(x.s) : x.s[i] = sym
    [] x.t = "list" -> \E i \in 1..Len(x.items) : x.items[i] = PyStr(<<sym>>)
    [] x.t = "dict" -> sym \in DOMAIN x.d
    [] OTHER        -> FALSE

\* whether `sym in x` raises TypeError (x is not a container)
ContainsRaises(x) == x.t \notin {"str", "list", "dict"}

\* whether len(x) raises TypeError
LenRaises(x) == x.t \notin {"str", "list", "dict"}

\* len(x)
PyLen(x) ==
  CASE x.t = "str"  -> Len(x.s)
    [] x.t = "list" -> Len(x.items)
    [] x.t = "dict" -> Cardinality(DOMAIN x.d)

\* s[:n]
Take(s, n) == SubSeq(s, 1, IF Len(s) < n THEN Len(s) ELSE n)

\* ------------------------------------------------------------------- spans
NoSpan == [name |-> <<>>, kind |-> "", status |-> "", attrs |-> EmptyMap, events |-> <<>>, ended |-> FALSE]

\* tracer.start_span: a recording span, status UNSET until set_status is called
StartSpan(n, k) == [name |-> n, kind |-> k, status |-> "UNSET", attrs |-> EmptyMap, events |-> <<>>, ended |-> FALSE]

\* span.set_attribute(k, v): values that are not str/int/sequence are dropped
SetAttr(sp, k, v) == IF v.t \in {"str", "int", "list"} THEN [sp EXCEPT !.attrs = (k :> v) @@ @] ELSE sp

\* span.set_attribute(k, v) guarded by `if v is not None`
SetIfPresent(sp, k, v) == IF v.t # "none" THEN SetAttr(sp, k, v) ELSE sp

\* span.record_exception(e)
RecordException(sp, e) == [sp EXCEPT !.events = Append(@, [name |-> "exception", exc |-> e.id, cls |-> e.cls, attrs |-> EmptyMap])]

\* span.add_event(name, attributes=attrs)
AddEvent(sp, n, attrs) == [sp EXCEPT !.events = Append(@, [name |-> n, exc |-> -1, cls |-> "", attrs |-> attrs])]

\* whether the exit of the with block handles exception e
ExitHandles(e, catches) == ~e.base \/ catches = "BaseException"

\* The exit of `with tracer.start_as_current_span(...)` when exception e leaves
\* the block (record_exception and set_status_on_exception default to True).
\* catches = "Exception": the release handles `except Exception` only;
\* catches = "BaseException": the release handles every BaseException.
ExitOnException(sp, e, catches) ==
  IF ExitHandles(e, catches) THEN [RecordException(sp, e) EXCEPT !.status = "ERROR", !.ended = TRUE]
  ELSE [sp EXCEPT !.ended = TRUE]

\* The exit of the `with` block on a normal return: span.end(), status untouched
ExitNormally(sp) == [sp EXCEPT !.ended = TRUE]

\* ------------------------------------------------- wrapped_method, lines 91-129
\* the length cap of the recorded input and output content
MaxAttrLen == 1000

\* the length cap of the serialized tool calls
MaxToolCallsLen == 500

Ellipsis == <<".", ".", ".">>

\* kwargs.get(k)
KwGet(kwargs, k) == DictGet(kwargs, k, NoneV)

\* sender = kwargs.get('sender') or (args[2] if len(args) > 2 else None)
ExtractSender(args, kwargs) == PyOr(KwGet(kwargs, "sender"), IF Len(args) > 2 THEN args[3] ELSE NoneV)

\* messages = kwargs.get('messages') or (args[1] if len(args) > 1 else [])
ExtractMessages(args, kwargs) == PyOr(KwGet(kwargs, "messages"), IF Len(args) > 1 THEN args[2] ELSE PyList(<<>>))

\* isinstance(x, dict), x being messages[-1] or the exception it raised
DictOrEmpty(x) == IF IsExc(x) \/ x.t = "dict" THEN x ELSE PyDict(EmptyMap)

\* latest_message = messages[-1] if messages and isinstance(messages[-1], dict) else {}
\* (an exception value when messages[-1] raises)
LatestMessage(messages) == IF ~Truthy(messages) THEN PyDict(EmptyMap) ELSE DictOrEmpty(LastItem(messages))

\* latest_message.get('content', '')
LatestContent(latest) == DictGet(latest.d, "content", PyStr(<<>>))

\* the message_type chain of lines 110-118 (content is a container here)
MessageType(content, messages) ==
  IF Contains(content, "tool_code") THEN "tool_code"
  ELSE IF Contains(content, "tool_response") THEN "tool_response"
  ELSE IF Truthy(messages) /\ PyLen(messages) = 1 THEN "initial_request"
  ELSE "plain_text"

\* c[:1000] + '...' if len(c) > 1000 else c
Capped(c) == IF PyLen(c) > MaxAttrLen THEN PyStr(Take(c.s, MaxAttrLen) \o Ellipsis) ELSE c

\* getattr(sender, 'name', str(sender) if sender else 'Unknown')
SenderName(sender) ==
  IF sender.t = "obj" /\ sender.name.t # "absent" THEN sender.name
  ELSE IF Truthy(sender) THEN StrOf(sender) ELSE PyStr(<<"Unknown">>)

get_agent_role(agent_name) ==
  IF agent_name = "PlanningAgent" THEN "orchestrator"
  ELSE IF agent_name \in {"WeatherAgent", "WebSearchAgent"} THEN "executor"
  ELSE "unknown"

\* span_name = f"messaging.process {agent_name}"
SpanName(agent_name) == <<"messaging.process", agent_name>>

\* lines 101-106: the span as opened, with the agent's attributes
OpenSpan(agent_name) ==
  SetAttr(SetAttr(SetAttr(SetAttr(StartSpan(SpanName(agent_name), "CONSUMER"),
    "messaging.operation", PyStr(<<"process">>)),
    "messaging.destination", PyStr(<<agent_name>>)),
    "ai.agent.name", PyStr(<<agent_name>>)),
    "ai.agent.role", PyStr(<<get_agent_role(agent_name)>>))

\* lines 120-124: the attributes taken from the call's arguments
InputAttributes(sp, content, messages, sender) ==
  SetAttr(SetAttr(SetAttr(sp,
    "messaging.message.type", PyStr(<<MessageType(content, messages)>>)),
    "message.input.content", Capped(content)),
    "messaging.sender.name", SenderName(sender))

\* wrapped_method from line 95 to its await at line 129.  stage is
\*   "raised"   an exception left the function: before the span was opened
\*              (span = NoSpan) or inside the with block (span ended);
\*   "awaiting" the span is open and original_method(*args, **kwargs) is called.
EnterWith(agent_name, sender, messages, latest, catches) ==
  IF IsExc(latest)
    THEN [stage |-> "raised", exc |-> latest, span |-> NoSpan, sender |-> sender, messages |-> messages]
  ELSE IF ContainsRaises(LatestContent(latest))
    THEN [stage |-> "raised", exc |-> OwnTypeError("argument is not iterable"),
          span |-> ExitOnException(OpenSpan(agent_name), OwnTypeError("argument is not iterable"), catches),
          sender |-> sender, messages |-> messages]
  ELSE [stage |-> "awaiting", exc |-> NoneV,
        span |-> InputAttributes(OpenSpan(agent_name), LatestContent(latest), messages, sender),
        sender |-> sender, messages |-> messages]

\* the latest message of the extracted message list
EnterFrom(agent_name, sender, messages, catches) == EnterWith(agent_name, sender, messages, LatestMessage(messages), catches)

\* wrapped_method up to its await (lines 93-129)
EnterWrapped(agent_name, args, kwargs, catches) == EnterFrom(agent_name, ExtractSender(args, kwargs), ExtractMessages(args, kwargs), catches)

\* ------------------------------------------------ wrapped_method, lines 129-191
\* json.dumps(tool_calls): one symbol per bracket and per element
JsonDumps(l) == <<"[">> \o [i \in 1..Len(l.items) |-> "item"] \o <<"]">>

\* usage_data.get(k) when usage_data is a dict
UsageField(usage, k) == IF usage.t = "dict" THEN DictGet(usage.d, k, NoneV) ELSE NoneV

\* lines 148-154: the token attributes
TokenAttributes(sp, usage) ==
  SetIfPresent(SetIfPresent(SetIfPresent(sp,
    "token.usage.prompt", UsageField(usage, "prompt_tokens")),
    "token.usage.completion", UsageField(usage, "completion_tokens")),
    "token.usage.total", UsageField(usage, "total_tokens"))

\* lines 157-162: f"Tool calls: {json.dumps(tool_calls)[:500]}..."
ToolCallsSummary(calls) == PyStr(<<"Tool calls: ">> \o Take(JsonDumps(calls), MaxToolCallsLen) \o Ellipsis)

\* lines 137-162: a dict result
DictOutput(sp, content, usage, calls) ==
  [oc |-> IF calls.t = "list" /\ ~Truthy(content) THEN ToolCallsSummary(calls) ELSE content,
   tokens |-> UsageField(usage, "total_tokens"),
   span |-> IF calls.t = "list" THEN SetAttr(TokenAttributes(sp, usage), "tool_calls_count", PyInt(Len(calls.items)))
            ELSE TokenAttributes(sp, usage)]

\* lines 135-168: [oc |-> output_content, tokens |-> token_usage, span |-> span]
ExtractOutput(sp, result) ==
  CASE result.t = "str" -> [oc |-> result, tokens |-> NoneV, span |-> sp]
    [] result.t = "dict" ->
         DictOutput(sp, DictGet(result.d, "content", NoneV), DictGet(result.d, "usage", PyDict(EmptyMap)), DictGet(result.d, "tool_calls", NoneV))
    [] result.t = "list" /\ Truthy(result) /\ LastItem(result).t = "dict" ->
         [oc |-> DictGet(LastItem(result).d, "content", NoneV), tokens |-> NoneV,
          span |-> SetAttr(sp, "messages.returned_count", PyInt(Len(result.items)))]
    [] OTHER -> [oc |-> NoneV, tokens |-> NoneV, span |-> sp]

\* the except clause as it would be with `raise RuntimeError(str(e))` for `raise`
ExceptHandlerRaisingNew(sp, e) ==
  IF e.base THEN [span |-> sp, exc |-> e]
  ELSE [span |-> RecordException(SetAttr(sp, "otel.status_code", PyStr(<<"ERROR">>)), e),
        exc |-> Exc("RuntimeError", 0, FALSE, e.msg)]

\* lines 186-191: the handler of `except Exception as e`, which re-raises e.
\* An exception that is not an Exception (asyncio.CancelledError) skips it.
ExceptHandler(sp, e) ==
  IF e.base THEN [span |-> sp, exc |-> e]
  ELSE [span |-> RecordException(SetAttr(SetAttr(SetAttr(sp,
                   "otel.status_code", PyStr(<<"ERROR">>)),
                   "exception.type", PyStr(<<e.cls>>)),
                   "exception.message", PyStr(<<e.msg>>)), e),
        exc |-> e]

\* lines 172-182: the output attribute and the otel.status_code attribute
OutputAttributes(out) ==
  IF out.oc.t # "none" /\ LenRaises(out.oc)
    THEN [span |-> out.span, exc |-> OwnTypeError("object has no len()")]
  ELSE [span |-> SetAttr(IF out.oc.t # "none" THEN SetAttr(out.span, "message.output.content", Capped(out.oc)) ELSE out.span,
                         "otel.status_code", PyStr(<<"OK">>)),
        exc |-> NoneV]

\* lines 129-184 once original_method has returned `result`: the span and
\* the exception (NoneV when none) with which the try block is left
TryBody(sp, result) == OutputAttributes(ExtractOutput(sp, result))

\* an exception leaves the with block: what the caller gets is that exception
Raised(h, catches) == [span |-> ExitOnException(h.span, h.exc, catches), result |-> [kind |-> "raise", value |-> h.exc]]

\* line 184 `return result`, or the except clause when the try block raised
AfterTry(body, value, catches) ==
  IF IsExc(body.exc) THEN Raised(ExceptHandler(body.span, body.exc), catches)
  ELSE [span |-> ExitNormally(body.span), result |-> [kind |-> "return", value |-> value]]

\* wrapped_method from the completion of the delegated call to its own exit.
\* outcome = [kind |-> "return", value |-> v] or [kind |-> "raise", value |-> e];
\* the result is the finished span and what the caller of wrapped_method gets.
LeaveWrapped(sp, outcome, catches) ==
  IF outcome.kind = "return" THEN AfterTry(TryBody(sp, outcome.value), outcome.value, catches)
  ELSE Raised(ExceptHandler(sp, outcome.value), catches)

\* ------------------------------------------------------------------ inputs
Text(w) == PyStr(<<w>>)

Msg(c) == PyDict([content |-> c])

LongText == PyStr([i \in 1..(MaxAttrLen + 1) |-> "x"])

\* the message lists a caller passes
MessageLists ==
  { PyList(<<>>),
    PyList(<<Msg(Text("hi"))>>),
    PyList(<<Msg(Text("hi")), Msg(Text("tool_code"))>>),
    PyList(<<Msg(Text("hi")), Msg(Text("tool_response"))>>),
    PyList(<<Msg(Text("hi")), Msg(Text("bye"))>>),
    PyList(<<PyDict(EmptyMap)>>),
    PyList(<<Msg(NoneV)>>),
    PyList(<<Msg(PyInt(5))>>),
    PyList(<<Text("hi")>>),
    PyList(<<Msg(LongText)>>) }

\* the senders a caller passes: none, a name, an agent, a cancellation token
Senders ==
  { NoneV, PyStr(<<"u", "s", "e", "r">>), PyObj("AssistantAgent", Text("PlanningAgent")), PyObj("CancellationToken", Absent) }

\* the ways of calling an operation of signature (messages, sender=None)
CallShapes(m, s) ==
  { [args |-> <<m, s>>, kwargs |-> EmptyMap],
    [args |-> <<m>>, kwargs |-> EmptyMap],
    [args |-> <<m>>, kwargs |-> [sender |-> s]],
    [args |-> <<>>, kwargs |-> [messages |-> m, sender |-> s]] }

Calls == UNION { CallShapes(m, s) : m \in MessageLists, s \in Senders }

\* what the delegated operation returns
Results ==
  { NoneV,
    Text("done"),
    PyDict([content |-> Text("ok"), usage |-> PyDict([prompt_tokens |-> PyInt(3), completion_tokens |-> PyInt(4), total_tokens |-> PyInt(7)])]),
    PyDict([tool_calls |-> PyList(<<Text("call")>>)]),
    PyDict([content |-> PyInt(5)]),
    PyList(<<Msg(Text("a")), Msg(Text("b"))>>),
    PyList(<<>>),
    LongText }

\* what the delegated operation raises (each a distinct instance)
Errors == { Exc("ValueError", 1, FALSE, "boom"), Exc("RuntimeError", 2, FALSE, "bad") }

\* the asyncio.CancelledError thrown into the task at its await
Cancellation == Exc("CancelledError", 3, TRUE, "")

\* how the delegated operation binds (messages, sender=None) from the call
BoundMessages(args, kwargs) == IF Len(args) >= 1 THEN args[1] ELSE KwGet(kwargs, "messages")

BoundSender(args, kwargs) == IF Len(args) >= 2 THEN args[2] ELSE KwGet(kwargs, "sender")

\* ------------------------------------------------------------------- state
\* the objects main() wraps, in order
WrapOrder == <<"PlanningAgent", "WeatherAgent">>

AgentIds == { WrapOrder[i] : i \in 1..Len(WrapOrder) }

VARIABLES
  onMessages,   \* per object: its on_messages attribute: "absent", "sync", "original", "wrapped"
  closure,      \* per object: whether a wrapped_method closure was defined for it
  wrapOutcome,  \* per object: how wrap_agent_with_telemetry ended for it
  mainPc,       \* main(): "wrapping", "running", "aborted"
  wrapIdx,      \* main(): index in WrapOrder of the next object to wrap
  call,         \* the invocation in progress or last completed
  catches,      \* which exceptions the tracing library's with-exit handles
  spans,        \* FileSpanExporter.spans, the buffer
  file,         \* the content of FileSpanExporter.file_path
  log,          \* history: the span data exported since the last shutdown
  flushed,      \* history: the span data exported before the last shutdown and after the one before
  ops,          \* history: the last two exporter operations
  nextSpanId,   \* the identifier of the next span handed to the exporter
  env,          \* the process environment: the credentials that are set
  tool          \* the tool call in progress or last completed

wrapperVars == <<onMessages, closure, wrapOutcome, mainPc, wrapIdx, call, catches>>

exporterVars == <<spans, file, log, flushed, ops, nextSpanId>>

toolVars == <<env, tool>>

NoOutcome == [kind |-> "none", value |-> NoneV]

IdleCall ==
  [pc |-> "idle", agent |-> "", entry |-> "", wrapped |-> FALSE, args |-> <<>>, kwargs |-> EmptyMap,
   sender |-> NoneV, messages |-> NoneV, span |-> NoSpan,
   delegCalls |-> 0, delegArgs |-> <<>>, delegKwargs |-> EmptyMap,
   outcome |-> NoOutcome, result |-> NoOutcome]

NotWrapped == [raised |-> "", method |-> "", returned |-> FALSE]

InitWrapper ==
  /\ onMessages \in [AgentIds -> {"absent", "sync", "original"}]
  /\ closure = [a \in AgentIds |-> FALSE]
  /\ wrapOutcome = [a \in AgentIds |-> NotWrapped]
  /\ mainPc = "wrapping"
  /\ wrapIdx = 1
  /\ call = IdleCall
  /\ catches \in {"Exception", "BaseException"}

\* ---------------------------------------- wrap_agent_with_telemetry, main()
\* line 86: hasattr(agent, 'on_messages') and inspect.iscoroutinefunction(...)
IsAsyncMethod(attr) == attr \in {"original", "wrapped"}

\* the check as it would be without inspect.iscoroutinefunction
WrapCheckHasattrOnly(attr) ==
  IF attr # "absent" THEN [raised |-> "", method |-> "", returned |-> TRUE]
  ELSE [raised |-> "TypeError", method |-> "on_messages", returned |-> FALSE]

\* lines 86-87: the TypeError raised for an unsupported target
WrapCheck(attr) ==
  IF IsAsyncMethod(attr) THEN [raised |-> "", method |-> "", returned |-> TRUE]
  ELSE [raised |-> "TypeError", method |-> "on_messages", returned |-> FALSE]

\* The attribute after a wrap that passed the check.  The setattr of line 193
\* is indented into wrapped_method's body, after its with block: defining the
\* closure runs none of it, so the attribute stays what it was.
AttrAfterWrap(attr) == attr

\* main() lines 53-61 calling wrap_agent_with_telemetry (lines 83-91) on the
\* next object; a TypeError makes main() print and return.
Wrap ==
  /\ mainPc = "wrapping"
  /\ LET a == WrapOrder[wrapIdx]
         r == WrapCheck(onMessages[a])
     IN /\ wrapOutcome' = [wrapOutcome EXCEPT ![a] = r]
        /\ closure' = [closure EXCEPT ![a] = r.returned]
        /\ onMessages' = [onMessages EXCEPT ![a] = IF r.returned THEN AttrAfterWrap(@) ELSE @]
        /\ mainPc' = IF ~r.returned THEN "aborted" ELSE IF wrapIdx = Len(WrapOrder) THEN "running" ELSE "wrapping"
        /\ wrapIdx' = IF r.returned THEN wrapIdx + 1 ELSE wrapIdx
  /\ UNCHANGED <<call, catches, exporterVars, toolVars>>

\* ----------------------------------------------------------- invocations
\* the call record once wrapped_method(*args, **kwargs) has run to its await
\* or to the exception that left it
CallRecord(a, entry, c, e) ==
  [pc |-> IF e.stage = "awaiting" THEN "awaiting" ELSE "done", agent |-> a, entry |-> entry, wrapped |-> TRUE,
   args |-> c.args, kwargs |-> c.kwargs, sender |-> e.sender, messages |-> e.messages, span |-> e.span,
   delegCalls |-> IF e.stage = "awaiting" THEN 1 ELSE 0,
   delegArgs |-> IF e.stage = "awaiting" THEN c.args ELSE <<>>,
   delegKwargs |-> IF e.stage = "awaiting" THEN c.kwargs ELSE EmptyMap,
   outcome |-> NoOutcome,
   result |-> IF e.stage = "awaiting" THEN NoOutcome ELSE [kind |-> "raise", value |-> e.exc]]

\* wrapped_method(*args, **kwargs) entered for object a
WrappedCall(a, entry, c) == CallRecord(a, entry, c, EnterWrapped(a, c.args, c.kwargs, catches))

\* the call record once the object's own on_messages was called directly
DirectCall(a, c) ==
  [IdleCall EXCEPT !.pc = "awaiting", !.agent = a, !.entry = "attribute", !.args = c.args, !.kwargs = c.kwargs,
                   !.delegCalls = 1, !.delegArgs = c.args, !.delegKwargs = c.kwargs]

\* the conversation runtime of main() line 96 calling agent.on_messages(...)
CallAgent(a, c) ==
  /\ mainPc = "running"
  /\ call.pc = "idle"
  /\ call' = IF onMessages[a] = "wrapped" THEN WrappedCall(a, "attribute", c) ELSE DirectCall(a, c)
  /\ UNCHANGED <<onMessages, closure, wrapOutcome, mainPc, wrapIdx, catches, exporterVars, toolVars>>

\* The closure wrapped_method applied to arguments by whoever holds it: what
\* a call of agent.on_messages runs once the closure is the attribute.
InvokeWrapped(a, c) ==
  /\ closure[a]
  /\ call.pc = "idle"
  /\ call' = WrappedCall(a, "closure", c)
  /\ UNCHANGED <<onMessages, closure, wrapOutcome, mainPc, wrapIdx, catches, exporterVars, toolVars>>

\* the call record once wrapped_method has been left
Finished(c, outcome, l) == [c EXCEPT !.pc = "done", !.outcome = outcome, !.span = l.span, !.result = l.result]

\* the awaited call completes with `outcome`
Completed(outcome) ==
  IF call.wrapped THEN Finished(call, outcome, LeaveWrapped(call.span, outcome, catches))
  ELSE [call EXCEPT !.pc = "done", !.outcome = outcome, !.result = outcome]

DelegateReturns(v) ==
  /\ call.pc = "awaiting"
  /\ call' = Completed([kind |-> "return", value |-> v])
  /\ UNCHANGED <<onMessages, closure, wrapOutcome, mainPc, wrapIdx, catches, exporterVars, toolVars>>

DelegateRaises(e) ==
  /\ call.pc = "awaiting"
  /\ call' = Completed([kind |-> "raise", value |-> e])
  /\ UNCHANGED <<onMessages, closure, wrapOutcome, mainPc, wrapIdx, catches, exporterVars, toolVars>>

\* the task is cancelled while suspended in the delegated call
Cancel ==
  /\ call.pc = "awaiting"
  /\ call' = Completed([kind |-> "raise", value |-> Cancellation])
  /\ UNCHANGED <<onMessages, closure, wrapOutcome, mainPc, wrapIdx, catches, exporterVars, toolVars>>

\* the caller takes the outcome (the returned value or the exception)
CallerResumes ==
  /\ call.pc = "done"
  /\ call' = IdleCall
  /\ UNCHANGED <<onMessages, closure, wrapOutcome, mainPc, wrapIdx, catches, exporterVars, toolVars>>

NextWrapper ==
  \/ Wrap
  \/ \E a \in AgentIds, c \in Calls : CallAgent(a, c)
  \/ \E a \in AgentIds, c \in Calls : InvokeWrapped(a, c)
  \/ \E v \in Results : DelegateReturns(v)
  \/ \E e \in Errors : DelegateRaises(e)
  \/ Cancel
  \/ CallerResumes

\* -------------------------------------------------------- FileSpanExporter
\* the most spans handed to the exporter in a run
MaxSpans == 3

\* the most spans in one export batch
MaxBatch == 2

HexDigits == <<"0", "1", "2", "3", "4", "5", "6", "7", "8", "9", "a", "b", "c", "d", "e", "f">>

RECURSIVE Hex(_, _)
\* format(n, '0<width>x')
Hex(n, width) == IF width = 0 THEN <<>> ELSE Hex(n \div 16, width - 1) \o <<HexDigits[(n % 16) + 1]>>

\* _format_timestamp: the UTC date-time of timestamp_ns / 1e9, to the nearest microsecond
FormatTimestamp(timestamp_ns) == [seconds |-> timestamp_ns \div 1000000000, micros |-> ((timestamp_ns % 1000000000) + 500) \div 1000, zone |-> "Z"]

\* the finished spans the batch processor hands over: what the wrapper, a tool
\* and the runtime of main() produce (parent 0: no parent)
SpanTemplates ==
  { [name |-> <<"messaging.process", "PlanningAgent">>, kind |-> "CONSUMER", status |-> "UNSET", description |-> "", parent |-> 0,
     start_time |-> 1000, end_time |-> 3000, attrs |-> ("otel.status_code" :> PyStr(<<"OK">>)), events |-> <<>>],
    [name |-> <<"messaging.process", "WeatherAgent">>, kind |-> "CONSUMER", status |-> "ERROR", description |-> "ValueError: boom", parent |-> 0,
     start_time |-> 2000, end_time |-> 2000, attrs |-> ("otel.status_code" :> PyStr(<<"ERROR">>)), events |-> <<[name |-> "exception", timestamp |-> 2000]>>],
    [name |-> <<"tool.web_search">>, kind |-> "CLIENT", status |-> "UNSET", description |-> "", parent |-> 1,
     start_time |-> 1500, end_time |-> 2500, attrs |-> EmptyMap, events |-> <<>>] }

\* a finished span: the template with its own span_id
SpanData(tpl, id) ==
  [name |-> tpl.name, kind |-> tpl.kind, status |-> tpl.status, description |-> tpl.description, parent |-> tpl.parent,
   start_time |-> tpl.start_time, end_time |-> tpl.end_time, attrs |-> tpl.attrs, events |-> tpl.events, trace_id |-> 7, span_id |-> id]

\* the finished span sp as the span processor hands it to the exporter
ReadableSpan(sp, id) ==
  [name |-> sp.name, kind |-> sp.kind, status |-> sp.status, description |-> "", parent |-> 0,
   start_time |-> 1000, end_time |-> 3000, attrs |-> sp.attrs,
   events |-> [i \in 1..Len(sp.events) |-> [name |-> sp.events[i].name, timestamp |-> 2000]], trace_id |-> 7, span_id |-> id]

\* the batches of k spans whose identifiers start at id
Batches(k, id) == { [i \in 1..k |-> SpanData(tpls[i], id + i - 1)] : tpls \in [1..k -> SpanTemplates] }

\* lines 20-47: the record export builds for one span
SpanDict(span_data) ==
  [name |-> span_data.name,
   trace_id |-> Hex(span_data.trace_id, 32),
   span_id |-> Hex(span_data.span_id, 16),
   parent_id |-> IF span_data.parent # 0 THEN Hex(span_data.parent, 16) ELSE <<"null">>,
   start_time |-> FormatTimestamp(span_data.start_time),
   end_time |-> FormatTimestamp(span_data.end_time),
   duration_ns |-> span_data.end_time - span_data.start_time,
   attributes |-> span_data.attrs,
   events |-> [i \in 1..Len(span_data.events) |-> [name |-> span_data.events[i].name, timestamp |-> FormatTimestamp(span_data.events[i].timestamp)]],
   status |-> [status_code |-> span_data.status, description |-> span_data.description],
   kind |-> span_data.kind]

RECURSIVE ExportInto(_, _)
\* lines 19-48: the loop appending one record per span of the batch
ExportInto(buffer, batch) == IF batch = <<>> THEN buffer ELSE ExportInto(Append(buffer, SpanDict(Head(batch))), Tail(batch))

\* lines 52-53: json.dump(self.spans, f) into the file opened with 'w'
FileAfterShutdown(buffer) == [written |-> TRUE, array |-> buffer]

\* shutdown as it would be without self.spans.clear()
BufferKept(buffer) == buffer

\* line 54: self.spans.clear()
BufferAfterShutdown(buffer) == <<>>

InitExporter ==
  /\ spans = <<>>
  /\ file = [written |-> FALSE, array |-> <<>>]
  /\ log = <<>>
  /\ flushed = <<>>
  /\ ops = <<"init", "init">>
  /\ nextSpanId = 1

\* FileSpanExporter.export(batch), called by the batch span processor
Export(batch) ==
  /\ nextSpanId + Len(batch) - 1 <= MaxSpans
  /\ spans' = ExportInto(spans, batch)
  /\ log' = log \o batch
  /\ ops' = <<ops[2], "export">>
  /\ nextSpanId' = nextSpanId + Len(batch)
  /\ UNCHANGED <<file, flushed, wrapperVars, toolVars>>

\* FileSpanExporter.shutdown()
Shutdown ==
  /\ file' = FileAfterShutdown(spans)
  /\ spans' = BufferAfterShutdown(spans)
  /\ flushed' = log
  /\ log' = <<>>
  /\ ops' = <<ops[2], "shutdown">>
  /\ UNCHANGED <<nextSpanId, wrapperVars, toolVars>>

NextExporter ==
  \/ \E k \in 0..MaxBatch : \E batch \in Batches(k, nextSpanId) : Export(batch)
  \/ Shutdown


\* ------------------------------------------------------------- agents.py
\* the most organic results in a search response
MaxResults == 4

\* params["num"]
NumResults == 3

\* the length cap of a snippet recorded on a span event
MaxSnippetLen == 100

\* the length cap of the tool.output_summary attribute
MaxSummaryLen == 500

\* line 18: config_key is a literal; the os.getenv of line 17 is commented
\* out, so the environment has no part in it
WeatherConfigKey(environment) == PyStr(<<"45408d486ba24acb91c44416253004">>)

\* line 57: os.getenv("SERP_API_KEY"): None when unset
SerpApiKey(environment) ==
  CASE environment.serp = "unset" -> NoneV
    [] environment.serp = "empty" -> PyStr(<<>>)
    [] OTHER -> PyStr(<<"serp-key">>)

Cities == {"London", "Hyderabad"}

Queries == {"president of USA"}

\* what the weather service answers: a body, a transport failure
\* (requests.exceptions.RequestException), or a body without "current"
WeatherResponses ==
  { [kind |-> "ok", temp |-> "21.0", condition |-> "Sunny"],
    [kind |-> "request_exception", temp |-> "", condition |-> ""],
    [kind |-> "bad_body", temp |-> "", condition |-> ""] }

ShortSnippet == PyStr(<<"snippet">>)

LongSnippet == PyStr([i \in 1..(MaxSnippetLen + 1) |-> "s"])

\* the organic results of a response: title, snippet and link may be missing
OrganicResults ==
  { [title |-> PyStr(<<"Title A">>), snippet |-> ShortSnippet, link |-> PyStr(<<"http://a">>)],
    [title |-> PyStr(<<"Title B">>), link |-> PyStr(<<"http://b">>)],
    [snippet |-> LongSnippet] }

\* the search responses with n organic results, each n <= MaxResults
ResponsesOf(n) == { [kind |-> "ok", has_key |-> TRUE, organic |-> r] : r \in [1..n -> OrganicResults] }

\* what search.get_dict answers: results, a dict without "organic_results",
\* or an exception
SearchResponses ==
  UNION { ResponsesOf(n) : n \in 0..MaxResults }
    \cup { [kind |-> "ok", has_key |-> FALSE, organic |-> <<>>], [kind |-> "raise", has_key |-> FALSE, organic |-> <<>>] }

IdleTool == [pc |-> "idle", fn |-> "", arg |-> "", out |-> <<>>, raised |-> FALSE, span |-> NoSpan, gets |-> 0, searches |-> 0, response |-> [kind |-> "none", has_key |-> FALSE, organic |-> <<>>]]

InitTools ==
  /\ env \in [weather : {"unset", "set"}, serp : {"unset", "empty", "set"}]
  /\ tool = IdleTool

\* a completed tool call: its output line(s), its ended span, the requests issued
ToolDone(fn, arg, out, sp, gets, searches, response) ==
  [pc |-> "done", fn |-> fn, arg |-> arg, out |-> out, raised |-> FALSE, span |-> ExitNormally(sp), gets |-> gets, searches |-> searches, response |-> response]

\* lines 15-16
WeatherSpan(city) == SetAttr(StartSpan(<<"tool.weather_tool">>, "CLIENT"), "weather.city", PyStr(<<city>>))

\* lines 19-22: the credential is missing
WeatherNoKey(city) ==
  ToolDone("weather_tool", city, <<<<"Error:", " WEATHER_API_APIKEY not set">>>>,
           SetAttr(SetAttr(WeatherSpan(city), "otel.status_code", PyStr(<<"ERROR">>)), "error.message", PyStr(<<"WEATHER_API_APIKEY not set">>)),
           0, 0, IdleTool.response)

\* lines 30-38: the sentence and the attributes of a successful lookup
WeatherOk(city, r) ==
  ToolDone("weather_tool", city, <<<<"The current weather in ", city, " is ", r.condition, " with a temperature of ", r.temp, "C.">>>>,
           SetAttr(SetAttr(SetAttr(SetAttr(WeatherSpan(city),
             "otel.status_code", PyStr(<<"OK">>)),
             "weather.temperature_c", PyStr(<<r.temp>>)),
             "weather.condition", PyStr(<<r.condition>>)),
             "tool.output", PyStr(<<"The current weather in ", city, " is ", r.condition, " with a temperature of ", r.temp, "C.">>)),
           1, 0, IdleTool.response)

\* lines 39-52: the two except clauses
WeatherFailed(city, prefix, e) ==
  ToolDone("weather_tool", city, <<<<prefix, e.msg>>>>,
           RecordException(SetAttr(SetAttr(SetAttr(WeatherSpan(city),
             "otel.status_code", PyStr(<<"ERROR">>)),
             "exception.type", PyStr(<<e.cls>>)),
             "error.message", PyStr(<<prefix, e.msg>>)), e),
           1, 0, IdleTool.response)

\* lines 14-52: weather_tool(city) when the service answers r
WeatherResult(environment, city, r) ==
  IF ~Truthy(WeatherConfigKey(environment)) THEN WeatherNoKey(city)
  ELSE CASE r.kind = "ok" -> WeatherOk(city, r)
         [] r.kind = "request_exception" -> WeatherFailed(city, "Weather tool request error: ", Exc("ConnectionError", 4, FALSE, "timed out"))
         [] OTHER -> WeatherFailed(city, "Weather tool error: ", Exc("KeyError", 5, FALSE, "'current'"))

weather_tool(city, r) ==
  /\ tool.pc = "idle"
  /\ tool' = WeatherResult(env, city, r)
  /\ UNCHANGED <<env, wrapperVars, exporterVars>>

\* lines 55-56
SearchSpan(query) == SetAttr(StartSpan(<<"tool.web_search">>, "CLIENT"), "search.query", PyStr(<<query>>))

\* lines 58-62: the credential is missing
SearchNoKey(query) ==
  ToolDone("web_search", query, <<<<"Error:", " SERP_API_KEY not configured.">>>>,
           SetAttr(SetAttr(SearchSpan(query), "otel.status_code", PyStr(<<"ERROR">>)), "error.message", PyStr(<<"Error: SERP_API_KEY not configured.">>)),
           0, 0, IdleTool.response)

\* lines 73-78: the search request is issued and awaited
SearchStarted(query) ==
  [pc |-> "searching", fn |-> "web_search", arg |-> query, out |-> <<>>, raised |-> FALSE, span |-> SearchSpan(query), gets |-> 0, searches |-> 1, response |-> IdleTool.response]

\* web_search(query) up to its await
web_search(query) ==
  /\ tool.pc = "idle"
  /\ tool' = IF ~Truthy(SerpApiKey(env)) THEN SearchNoKey(query) ELSE SearchStarted(query)
  /\ UNCHANGED <<env, wrapperVars, exporterVars>>

\* snippet[:100] + '...' if len(snippet) > 100 else snippet
CappedSnippet(snippet) == IF Len(snippet.s) > MaxSnippetLen THEN PyStr(Take(snippet.s, MaxSnippetLen) \o Ellipsis) ELSE snippet

\* lines 87-89: the fields of one result, with their defaults
ResultFields(r) ==
  [title |-> DictGet(r, "title", PyStr(<<"No Title">>)), snippet |-> DictGet(r, "snippet", PyStr(<<>>)), link |-> DictGet(r, "link", PyStr(<<"No Link">>))]

\* line 90: f"{i}. {title}: {snippet}\n"
EntryLine(i, f) == <<ToString(i), ". ">> \o f.title.s \o <<": ">> \o f.snippet.s

\* line 91: span.add_event(f"result_{i}", attributes={...})
EntryEvent(sp, i, f) == AddEvent(sp, <<"result_", ToString(i)>>, [title |-> f.title, snippet |-> CappedSnippet(f.snippet), link |-> f.link])

\* the loop as it would be over organic_results without the slice
ListedAll(organic) == organic

\* line 86: organic_results[:params["num"]]
Listed(organic) == Take(organic, NumResults)

\* line 86: enumerate(..., 1): the number of the entry at index i
EntryNumber(i) == i

RECURSIVE ListEntries(_, _, _)
\* lines 86-91: the loop over the listed results, from index i on; acc is
\* [out |-> output lines, span |-> span]
ListEntries(acc, listed, i) ==
  IF i > Len(listed) THEN acc
  ELSE ListEntries([out |-> Append(acc.out, EntryLine(EntryNumber(i), ResultFields(listed[i]))),
                    span |-> EntryEvent(acc.span, EntryNumber(i), ResultFields(listed[i]))], listed, i + 1)

\* lines 80-93: the output and the span for the organic results
Summarize(sp, query, organic) ==
  IF organic = <<>>
    THEN [out |-> <<<<"No results found.">>>>, span |-> SetAttr(sp, "search.results_count", PyInt(0))]
  ELSE ListEntries([out |-> <<<<"Search results for '", query, "':">>>>, span |-> sp], Listed(organic), 1)

RECURSIVE Flatten(_)
\* the output string: its lines one after another
Flatten(lines) == IF lines = <<>> THEN <<>> ELSE Head(lines) \o Flatten(Tail(lines))

\* line 96: output[:500] + '...' if len(output) > 500 else output
OutputSummary(out) == IF Len(Flatten(out)) > MaxSummaryLen THEN PyStr(Take(Flatten(out), MaxSummaryLen) \o Ellipsis) ELSE PyStr(Flatten(out))

\* lines 93-97 after the loop
SearchOk(t, organic, sum) ==
  ToolDone("web_search", t.arg, sum.out,
           SetAttr(SetAttr(SetIfPresent(sum.span, "search.results_count", IF organic = <<>> THEN NoneV ELSE PyInt(Len(organic))),
             "otel.status_code", PyStr(<<"OK">>)),
             "tool.output_summary", OutputSummary(sum.out)),
           0, t.searches, [kind |-> "ok", has_key |-> TRUE, organic |-> organic])

\* lines 99-105: the except clause
SearchFailed(t, e) ==
  ToolDone("web_search", t.arg, <<<<"Web search error: ", e.msg>>>>,
           RecordException(SetAttr(SetAttr(SetAttr(t.span,
             "otel.status_code", PyStr(<<"ERROR">>)),
             "exception.type", PyStr(<<e.cls>>)),
             "exception.message", PyStr(<<"Web search error: ", e.msg>>)), e),
           0, t.searches, [kind |-> "raise", has_key |-> FALSE, organic |-> <<>>])

\* results.get("organic_results", [])
OrganicOf(r) == IF r.has_key THEN r.organic ELSE <<>>

\* web_search from the completion of search.get_dict on
SearchResult(t, r) ==
  IF r.kind = "raise" THEN SearchFailed(t, Exc("ConnectionError", 6, FALSE, "unreachable"))
  ELSE SearchOk(t, OrganicOf(r), Summarize(t.span, t.arg, OrganicOf(r)))

\* search.get_dict completes with r
SearchResponds(r) ==
  /\ tool.pc = "searching"
  /\ tool' = SearchResult(tool, r)
  /\ UNCHANGED <<env, wrapperVars, exporterVars>>

\* the caller takes the tool's string
ToolReturns ==
  /\ tool.pc = "done"
  /\ tool' = IdleTool
  /\ UNCHANGED <<env, wrapperVars, exporterVars>>

NextTools ==
  \/ \E city \in Cities, r \in WeatherResponses : weather_tool(city, r)
  \/ \E query \in Queries : web_search(query)
  \/ \E r \in SearchResponses : SearchResponds(r)
  \/ ToolReturns

\* ----------------------------------------------------------- specifications
vars == <<wrapperVars, exporterVars, toolVars>>

\* main() as it is written: every object it wraps is an AssistantAgent, whose
\* on_messages is a coroutine function; no invocation is in progress
WrapperAtRest ==
  /\ onMessages = [a \in AgentIds |-> "original"]
  /\ closure = [a \in AgentIds |-> FALSE]
  /\ wrapOutcome = [a \in AgentIds |-> NotWrapped]
  /\ mainPc = "wrapping"
  /\ wrapIdx = 1
  /\ call = IdleCall
  /\ catches = "Exception"

\* no credential in the environment, no tool call in progress
ToolsAtRest ==
  /\ env = [weather |-> "unset", serp |-> "unset"]
  /\ tool = IdleTool

\* wrap_agent_with_telemetry, main() and the invocations of on_messages
InitOfWrapper == InitWrapper /\ InitExporter /\ ToolsAtRest

SpecWrapper == InitOfWrapper /\ [][NextWrapper]_vars

\* FileSpanExporter
InitOfExporter == WrapperAtRest /\ InitExporter /\ ToolsAtRest

SpecExporter == InitOfExporter /\ [][NextExporter]_vars

\* weather_tool and web_search
InitOfTools == WrapperAtRest /\ InitExporter /\ InitTools

SpecTools == InitOfTools /\ [][NextTools]_vars

\* ------------------------------------------------------------------ claims
\* an invocation of the closure wrapped_method that has been left
WrappedDone == call.wrapped /\ call.pc = "done"

\* C1: once wrap_agent_with_telemetry has returned for an object, every call
\* of its on_messages attribute runs the instrumented version: it opens one
\* span named "messaging.process <agent-name>" of kind CONSUMER around the
\* delegated call and has ended it when the call is left.
C1_AttributeIsInstrumented ==
  (call.entry = "attribute" /\ call.pc # "idle" /\ wrapOutcome[call.agent].returned)
    => /\ onMessages[call.agent] = "wrapped"
       /\ call.span.name = SpanName(call.agent)
       /\ call.span.kind = "CONSUMER"
       /\ call.span.ended = (call.pc = "done")

\* C2: when the delegated operation raises an exception, the span is ended
\* with status ERROR once wrapped_method is left, and what the caller gets is
\* the very exception instance the delegated operation raised.
C2_ErrorSpanAndSameException ==
  (WrappedDone /\ call.outcome.kind = "raise" /\ ~call.outcome.value.base)
    => /\ call.span.ended
       /\ call.span.status = "ERROR"
       /\ call.result.kind = "raise"
       /\ call.result.value = call.outcome.value

C2_Witness ==
  /\ WrappedDone
  /\ call.outcome = [kind |-> "raise", value |-> Exc("ValueError", 1, FALSE, "boom")]
  /\ call.result = call.outcome
  /\ call.span.status = "ERROR"
  /\ call.span.ended

\* C3: the instrumented operation is a transparent pass-through: whatever
\* the arguments, the delegated operation is called exactly once with the
\* same positional and keyword arguments, and the caller gets exactly its
\* outcome (its return value or its exception).
C3_TransparentPassThrough ==
  /\ (call.wrapped /\ call.pc # "idle")
       => /\ call.delegCalls = 1
          /\ call.delegArgs = call.args
          /\ call.delegKwargs = call.kwargs
  /\ WrappedDone => call.result = call.outcome

\* C5: when the delegated operation returns normally, the finished span has
\* status OK, so the record the exporter builds for it has status_code OK.
C5_StatusOkOnReturn ==
  (WrappedDone /\ call.outcome.kind = "return")
    => /\ call.span.ended
       /\ call.span.status = "OK"
       /\ SpanDict(ReadableSpan(call.span, 1)).status.status_code = "OK"

\* C6: when the task is cancelled while suspended in the delegated call, the
\* span is ended with status ERROR, the cancellation is recorded as the
\* exception with the error attributes of any other failure, and the
\* cancellation propagates to the caller.
C6_CancellationRecorded ==
  (WrappedDone /\ call.outcome.kind = "raise" /\ call.outcome.value = Cancellation)
    => /\ call.span.ended
       /\ call.span.status = "ERROR"
       /\ \E i \in 1..Len(call.span.events) : call.span.events[i].exc = Cancellation.id
       /\ "exception.type" \in DOMAIN call.span.attrs
       /\ call.result = call.outcome

\* C10: the message list and the sender the wrapper extracts from a call are
\* the message list and the sender the delegated operation receives.
C10_ExtractsWhatOriginalReceives ==
  (call.wrapped /\ call.pc # "idle")
    => /\ call.messages = BoundMessages(call.args, call.kwargs)
       /\ call.sender = BoundSender(call.args, call.kwargs)

\* C4: wrap_agent_with_telemetry on an object whose on_messages is absent or
\* is not a coroutine function raises the TypeError naming on_messages and
\* leaves the object as it was: nothing is installed on it.
C4_UnsupportedTargetRejected ==
  [][\A a \in AgentIds :
       (wrapOutcome'[a] # wrapOutcome[a] /\ onMessages[a] \in {"absent", "sync"})
         => /\ wrapOutcome'[a].raised = "TypeError"
            /\ wrapOutcome'[a].method = "on_messages"
            /\ ~wrapOutcome'[a].returned
            /\ onMessages'[a] = onMessages[a]
            /\ ~closure'[a]]_vars

C4_Witness ==
  \E a \in AgentIds :
    /\ onMessages[a] = "sync"
    /\ wrapOutcome[a] = [raised |-> "TypeError", method |-> "on_messages", returned |-> FALSE]
    /\ mainPc = "aborted"

\* the records export builds for a sequence of finished spans
Records(data) == [i \in 1..Len(data) |-> SpanDict(data[i])]

\* C7: the buffer holds, in export order, the records of the spans exported
\* since the last shutdown; each shutdown writes the file as one array of
\* exactly the records exported since the shutdown before it, each once, and
\* empties the buffer; a shutdown that follows a shutdown leaves the file [].
C7_BufferAndFile ==
  /\ spans = Records(log)
  /\ file.written => file.array = Records(flushed)
  /\ \A i, j \in 1..Len(file.array) : i # j => file.array[i].span_id # file.array[j].span_id
  /\ ops[2] = "shutdown" => (spans = <<>> /\ file.written)
  /\ ops = <<"shutdown", "shutdown">> => file.array = <<>>

C7_Witness ==
  /\ ops = <<"shutdown", "shutdown">>
  /\ file = [written |-> TRUE, array |-> <<>>]
  /\ spans = <<>>
  /\ nextSpanId > 2

\* C8: weather_tool called while the weather credential is missing from the
\* environment returns a string starting with "Error:" and issues no HTTP GET.
C8_NoCredentialNoRequest ==
  (tool.pc = "done" /\ tool.fn = "weather_tool" /\ env.weather = "unset")
    => /\ tool.out[1][1] = "Error:"
       /\ tool.gets = 0

\* the numbered entries of a tool output
Entries(out) == SelectSeq(out, LAMBDA line : Len(line) >= 2 /\ line[2] = ". ")

\* the result events of a span
ResultEvents(sp) == SelectSeq(sp.events, LAMBDA ev : ev.name[1] = "result_")

\* the title web_search is to list for a result
TitleOf(r) == IF "title" \in DOMAIN r THEN r.title.s[1] ELSE "No Title"

\* C9: web_search with a configured credential and a response of n organic
\* results returns exactly "No results found." when n = 0, and otherwise a
\* summary of exactly min(n, 3) entries numbered 1..min(n, 3) in the
\* response's order, with one span event per entry; with the credential
\* absent it returns an error string and issues no search request.
C9_SearchSummary ==
  (tool.pc = "done" /\ tool.fn = "web_search")
    => /\ env.serp = "unset" => (tool.out[1][1] = "Error:" /\ tool.searches = 0)
       /\ (env.serp = "set" /\ tool.response.kind = "ok")
            => LET organic == tool.response.organic
                   k == IF Len(organic) < 3 THEN Len(organic) ELSE 3
               IN /\ tool.searches = 1
                  /\ Len(organic) = 0 => tool.out = <<<<"No results found.">>>>
                  /\ Len(organic) >= 1
                       => /\ Len(Entries(tool.out)) = k
                          /\ Len(tool.out) = k + 1
                          /\ Len(ResultEvents(tool.span)) = k
                          /\ Len(tool.span.events) = k
                          /\ \A i \in 1..k :
                               /\ Entries(tool.out)[i][1] = ToString(i)
                               /\ Entries(tool.out)[i][3] = TitleOf(organic[i])
                               /\ ResultEvents(tool.span)[i].name = <<"result_", ToString(i)>>

C9_Witness ==
  /\ tool.pc = "done"
  /\ tool.fn = "web_search"
  /\ env.serp = "set"
  /\ Len(tool.response.organic) = 4
  /\ Len(Entries(tool.out)) = 3
  /\ Len(tool.span.events) = 3

\* does the text s end with the ellipsis suffix '...'
EndsWithEllipsis(s) == Len(s) >= Len(Ellipsis) /\ SubSeq(s, Len(s) - Len(Ellipsis) + 1, Len(s)) = Ellipsis

\* is `recorded` a length-capped copy of the text `original`
CappedCopy(recorded, original) ==
  /\ Len(recorded.s) <= MaxAttrLen
  /\ Len(original.s) <= MaxAttrLen => recorded = original
  /\ EndsWithEllipsis(recorded.s) <=> Len(original.s) > MaxAttrLen

\* the input content the wrapper read from the call in flight
InputContent == LatestContent(LatestMessage(call.messages))

\* the output content the wrapper read from the value the delegated call returned
OutputContent == ExtractOutput(call.span, call.outcome.value).oc

\* C11: the input content recorded as the span attribute message.input.content
\* and the output content recorded as message.output.content are length-capped
\* copies: the recorded text has at most 1000 characters, equals the original
\* when that is within the cap, and ends with '...' exactly when the original
\* was longer than the cap.
C11_RecordedContentCapped ==
  /\ (call.wrapped /\ call.pc # "idle" /\ "message.input.content" \in DOMAIN call.span.attrs)
       => CappedCopy(call.span.attrs["message.input.content"], InputContent)
  /\ (WrappedDone /\ call.outcome.kind = "return" /\ "message.output.content" \in DOMAIN call.span.attrs)
       => CappedCopy(call.span.attrs["message.output.content"], OutputContent)

====
